---- MODULE Spec2Model ----
(***************************************************************************)
(* SLHAtools: ReadSLHA, the SLHAdata accessors and SLHAdata.Write.         *)
(*                                                                         *)
(* Text is modelled at character level: a Python str is a sequence of      *)
(* one-character strings, so that strip/split/int/float/format are         *)
(* computed as the interpreter computes them.  A file is the sequence of   *)
(* its characters, "\n" included.                                          *)
(***************************************************************************)
EXTENDS Integers, Sequences, FiniteSets, TLC

(***************************************************************************)
(* Bounds of the model.                                                    *)
(***************************************************************************)
\* lines of the file of the parse/serialize runs
MaxLines == 3
\* ReadSLHA calls in a parse/serialize run
MaxRounds == 2
\* lines of the file of the accessor runs
MaxApiLines == 3
\* successful SetValue calls in an accessor run
MaxSets == 1

(***************************************************************************)
(* Python str primitives.                                                  *)
(***************************************************************************)
NL == "\n"

IsSpace(c) == c \in {" ", NL}

Digits == <<"0", "1", "2", "3", "4", "5", "6", "7", "8", "9">>

IsDigit(c) == \E i \in 1..10 : Digits[i] = c

DigitVal(c) == (CHOOSE i \in 1..10 : Digits[i] = c) - 1

\* str.lower() is only ever compared with 'block' and 'decay': the letters
\* of the two keywords are the ones whose case matters
Upper == <<"A", "B", "C", "D", "E", "K", "L", "O", "Y">>

LowerOf == <<"a", "b", "c", "d", "e", "k", "l", "o", "y">>

LowerChar(c) ==
    IF \E i \in 1..Len(Upper) : Upper[i] = c
    THEN LowerOf[CHOOSE i \in 1..Len(Upper) : Upper[i] = c]
    ELSE c

Lower(s) == [i \in 1..Len(s) |-> LowerChar(s[i])]

RECURSIVE LStrip(_)
LStrip(s) == IF s # <<>> /\ IsSpace(Head(s)) THEN LStrip(Tail(s)) ELSE s

RECURSIVE RStrip(_)
RStrip(s) ==
    IF s # <<>> /\ IsSpace(s[Len(s)]) THEN RStrip(SubSeq(s, 1, Len(s) - 1)) ELSE s

Strip(s) == RStrip(LStrip(s))

StartsWith(s, p) == Len(s) >= Len(p) /\ SubSeq(s, 1, Len(p)) = p

\* index of the first occurrence of character c in s, 0 when there is none
Find(s, c) ==
    IF \E i \in 1..Len(s) : s[i] = c
    THEN CHOOSE i \in 1..Len(s) : s[i] = c /\ \A j \in 1..(i - 1) : s[j] # c
    ELSE 0

\* line.split('#',1): <<before>> or <<before, after>>
SplitHash(s) ==
    LET i == Find(s, "#")
    IN  IF i = 0 THEN <<s>>
        ELSE <<SubSeq(s, 1, i - 1), SubSeq(s, i + 1, Len(s))>>

\* length of the leading run of non-whitespace characters
RECURSIVE TokLen(_)
TokLen(s) == IF s = <<>> \/ IsSpace(Head(s)) THEN 0 ELSE 1 + TokLen(Tail(s))

\* str.split(): the whitespace-separated tokens
RECURSIVE Split(_)
Split(s) ==
    LET t == LStrip(s)
    IN  IF t = <<>> THEN <<>>
        ELSE <<SubSeq(t, 1, TokLen(t))>> \o Split(SubSeq(t, TokLen(t) + 1, Len(t)))

\* str.split(None, 1): the first token, then the rest with its leading
\* whitespace removed (absent when nothing but whitespace follows)
SplitOnce(s) ==
    LET t == LStrip(s)
        n == TokLen(t)
        r == LStrip(SubSeq(t, n + 1, Len(t)))
    IN  IF t = <<>> THEN <<>>
        ELSE IF r = <<>> THEN <<SubSeq(t, 1, n)>>
        ELSE <<SubSeq(t, 1, n), r>>

Spaces(n) == [i \in 1..n |-> " "]

\* '{:<w}' and '{:>w}' applied to an already converted str
LJust(s, w) == IF Len(s) >= w THEN s ELSE s \o Spaces(w - Len(s))

RJust(s, w) == IF Len(s) >= w THEN s ELSE Spaces(w - Len(s)) \o s

\* file.readlines(): the lines, each with its terminator
RECURSIVE Readlines(_)
Readlines(s) ==
    LET i == Find(s, NL)
    IN  IF s = <<>> THEN <<>>
        ELSE IF i = 0 THEN <<s>>
        ELSE <<SubSeq(s, 1, i)>> \o Readlines(SubSeq(s, i + 1, Len(s)))

(***************************************************************************)
(* int() and float() of a token, and str() of the results.                 *)
(* Tokens are whitespace-free.  Literals are decimal, without exponent or  *)
(* underscores; a float is sign, mantissa m and number k of fraction       *)
(* digits (value m * 10^-k), k minimal, which is what repr() prints for    *)
(* magnitudes in [1e-4, 1e16).                                             *)
(***************************************************************************)
AllDigits(s) == s # <<>> /\ \A i \in 1..Len(s) : IsDigit(s[i])

RECURSIVE DigitsVal(_)
DigitsVal(s) ==
    IF s = <<>> THEN 0
    ELSE 10 * DigitsVal(SubSeq(s, 1, Len(s) - 1)) + DigitVal(s[Len(s)])

HasSign(s) == s # <<>> /\ Head(s) \in {"+", "-"}

Unsigned(s) == IF HasSign(s) THEN Tail(s) ELSE s

\* int(s): ok = FALSE is ValueError
IntParse(s) ==
    IF AllDigits(Unsigned(s))
    THEN [ok |-> TRUE,
          v |-> IF Head(s) = "-" THEN 0 - DigitsVal(Unsigned(s))
                ELSE DigitsVal(Unsigned(s))]
    ELSE [ok |-> FALSE, v |-> 0]

RECURSIVE NatStr(_)
NatStr(n) ==
    IF n < 10 THEN <<Digits[n + 1]>> ELSE NatStr(n \div 10) \o <<Digits[(n % 10) + 1]>>

\* str(n) of an int
IntStr(n) == IF n < 0 THEN <<"-">> \o NatStr(0 - n) ELSE NatStr(n)

RECURSIVE Pow10(_)
Pow10(k) == IF k = 0 THEN 1 ELSE 10 * Pow10(k - 1)

RECURSIVE FloatNorm(_)
FloatNorm(f) ==
    IF f.k > 0 /\ f.m % 10 = 0
    THEN FloatNorm([neg |-> f.neg, m |-> f.m \div 10, k |-> f.k - 1])
    ELSE f

\* float(s): ok = FALSE is ValueError
FloatParse(s) ==
    LET u == Unsigned(s)
        d == Find(u, ".")
        ip == IF d = 0 THEN u ELSE SubSeq(u, 1, d - 1)
        fp == IF d = 0 THEN <<>> ELSE SubSeq(u, d + 1, Len(u))
        good == /\ ip \o fp # <<>>
                /\ \A i \in 1..Len(ip) : IsDigit(ip[i])
                /\ \A i \in 1..Len(fp) : IsDigit(fp[i])
    IN  IF good
        THEN [ok |-> TRUE,
              f |-> FloatNorm([neg |-> (HasSign(s) /\ Head(s) = "-"),
                               m |-> DigitsVal(ip \o fp), k |-> Len(fp)])]
        ELSE [ok |-> FALSE, f |-> [neg |-> FALSE, m |-> 0, k |-> 0]]

\* str(x) of a float
FloatStr(f) ==
    LET ip == NatStr(f.m \div Pow10(f.k))
        fr == NatStr(f.m % Pow10(f.k))
        fp == IF f.k = 0 THEN <<"0">>
              ELSE [i \in 1..(f.k - Len(fr)) |-> "0"] \o fr
    IN  (IF f.neg THEN <<"-">> ELSE <<>>) \o ip \o <<".">> \o fp

(***************************************************************************)
(* Python values.  A scalar is an int, a str, a float or None; a key is a  *)
(* scalar or a tuple of scalars.  Every value carries all fields, so that  *)
(* values of different Python types compare unequal instead of failing.    *)
(***************************************************************************)
NoFloat == [neg |-> FALSE, m |-> 0, k |-> 0]

PyInt(n) == [t |-> "int", i |-> n, s |-> <<>>, f |-> NoFloat]

PyStr(s) == [t |-> "str", i |-> 0, s |-> s, f |-> NoFloat]

PyFloat(f) == [t |-> "float", i |-> 0, s |-> <<>>, f |-> f]

PyNone == [t |-> "None", i |-> 0, s |-> <<>>, f |-> NoFloat]

\* a scalar key x is Key(FALSE, <<x>>), a tuple key (x, y) is Key(TRUE, <<x, y>>)
Key(tup, e) == [tup |-> tup, e |-> e]

\* str(x) of a scalar
PyToStr(x) ==
    CASE x.t = "int" -> IntStr(x.i)
      [] x.t = "str" -> x.s
      [] x.t = "float" -> FloatStr(x.f)
      [] OTHER -> <<"N", "o", "n", "e">>

\* '{:<w}'.format(x): NoneType does not support a format spec (TypeError)
FormatRaises(x) == x.t = "None"

(***************************************************************************)
(* PIDs: particle names to particle IDs.                                   *)
(***************************************************************************)
SM_pid ==
    <<<<<<"d">>, 1>>,
       <<<<"u">>, 2>>,
       <<<<"s">>, 3>>,
       <<<<"c">>, 4>>,
       <<<<"b">>, 5>>,
       <<<<"t">>, 6>>,
       <<<<"e">>, 11>>,
       <<<<"v", "e">>, 12>>,
       <<<<"m", "u">>, 13>>,
       <<<<"v", "m">>, 14>>,
       <<<<"t", "a", "u">>, 15>>,
       <<<<"v", "t">>, 16>>,
       <<<<"g">>, 21>>,
       <<<<"a">>, 22>>,
       <<<<"Z">>, 23>>,
       <<<<"W">>, 24>>>>

Higgs_pid ==
    <<<<<<"h">>, 25>>,
       <<<<"H", "0">>, 35>>,
       <<<<"A", "0">>, 36>>,
       <<<<"H", "+">>, 37>>>>

MSSM_pid ==
    <<<<<<"~", "d", "L">>, 1000001>>,
       <<<<"~", "u", "L">>, 1000002>>,
       <<<<"~", "s", "L">>, 1000003>>,
       <<<<"~", "c", "L">>, 1000004>>,
       <<<<"~", "b", "1">>, 1000005>>,
       <<<<"~", "t", "1">>, 1000006>>,
       <<<<"~", "e", "L">>, 1000011>>,
       <<<<"~", "v", "e">>, 1000012>>,
       <<<<"~", "m", "u", "L">>, 1000013>>,
       <<<<"~", "v", "m", "u">>, 1000014>>,
       <<<<"~", "t", "a", "u", "1">>, 1000015>>,
       <<<<"~", "v", "t">>, 1000016>>,
       <<<<"~", "d", "R">>, 2000001>>,
       <<<<"~", "u", "R">>, 2000002>>,
       <<<<"~", "s", "R">>, 2000003>>,
       <<<<"~", "c", "R">>, 2000004>>,
       <<<<"~", "b", "2">>, 2000005>>,
       <<<<"~", "t", "2">>, 2000006>>,
       <<<<"~", "e", "R">>, 2000011>>,
       <<<<"~", "v", "e", "R">>, 2000012>>,
       <<<<"~", "m", "u", "R">>, 2000013>>,
       <<<<"~", "v", "m", "u", "R">>, 2000014>>,
       <<<<"~", "t", "a", "u", "2">>, 2000015>>,
       <<<<"~", "v", "t", "R">>, 2000016>>,
       <<<<"~", "g">>, 1000021>>,
       <<<<"~", "N", "1">>, 1000022>>,
       <<<<"~", "N", "2">>, 1000023>>,
       <<<<"~", "C", "1">>, 1000024>>,
       <<<<"~", "N", "3">>, 1000025>>,
       <<<<"~", "N", "4">>, 1000035>>,
       <<<<"~", "C", "2">>, 1000037>>,
       <<<<"~", "G">>, 1000039>>>>

PIDs == SM_pid \o Higgs_pid \o MSSM_pid

\* GetPID(particle): a name is looked up (None when unknown), anything else
\* is returned as it is
GetPID(particle) ==
    IF particle.t = "str"
    THEN IF \E n \in 1..Len(PIDs) : PIDs[n][1] = particle.s
         THEN PyInt(PIDs[CHOOSE n \in 1..Len(PIDs) : PIDs[n][1] = particle.s][2])
         ELSE PyNone
    ELSE particle

(***************************************************************************)
(* SLHAdata.  An OrderedDict is the sequence of its items in insertion     *)
(* order; a lookup that finds nothing is a KeyError.                       *)
(***************************************************************************)
EmptyData == [preamble |-> <<>>, blocks |-> <<>>, decays |-> <<>>]

\* position of blockname in _blocks, 0 for KeyError
BlockIdx(doc, blockname) ==
    IF \E n \in 1..Len(doc.blocks) : doc.blocks[n].name = blockname
    THEN CHOOSE n \in 1..Len(doc.blocks) : doc.blocks[n].name = blockname
    ELSE 0

\* position of the int p in _decays, 0 for KeyError
DecayIdx(doc, p) ==
    IF \E n \in 1..Len(doc.decays) : doc.decays[n].pid = p
    THEN CHOOSE n \in 1..Len(doc.decays) : doc.decays[n].pid = p
    ELSE 0

\* position of key in a block's data, 0 for KeyError
EntryIdx(data, key) ==
    IF \E n \in 1..Len(data) : data[n].key = key
    THEN CHOOSE n \in 1..Len(data) : data[n].key = key
    ELSE 0

\* position of the daughter tuple in a decay's data, 0 for KeyError
ModeIdx(data, daughters) ==
    IF \E n \in 1..Len(data) : data[n].daughters = daughters
    THEN CHOOSE n \in 1..Len(data) : data[n].daughters = daughters
    ELSE 0

Blocks(doc) == [n \in 1..Len(doc.blocks) |-> doc.blocks[n].name]

Decays(doc) == [n \in 1..Len(doc.decays) |-> doc.decays[n].pid]

(***************************************************************************)
(* ReadSLHA, one iteration of its loop over the lines.                     *)
(***************************************************************************)
kwBlock == <<"b", "l", "o", "c", "k">>

kwDecay == <<"d", "e", "c", "a", "y">>

\* the header tests of ReadSLHA, made on the stripped line
IsBlockLine(line) == StartsWith(Lower(line), kwBlock)

IsDecayLine(line) == StartsWith(Lower(line), kwDecay)

IntOrStr(tok) == IF IntParse(tok).ok THEN PyInt(IntParse(tok).v) ELSE PyStr(tok)

\* the key of a block entry, from the tokens of its data portion
EntryKey(data) ==
    LET columns == Len(data)
        front == SubSeq(data, 1, columns - 1)
    IN  IF columns <= 2 THEN Key(FALSE, <<IntOrStr(data[1])>>)
        ELSE IF columns = 3
        THEN IF \A n \in 1..2 : IntParse(front[n]).ok
             THEN Key(TRUE, [n \in 1..2 |-> PyInt(IntParse(front[n]).v)])
             ELSE Key(TRUE, [n \in 1..2 |-> PyStr(front[n])])
        ELSE Key(TRUE, [n \in 1..(columns - 1) |-> PyStr(front[n])])

\* _blocks[block]['data'][keys] = {...} unless the key is already there
AddEntry(data, keys, value, description, columns) ==
    IF EntryIdx(data, keys) # 0 THEN data
    ELSE Append(data, [key |-> keys, value |-> value,
                       description |-> description, columns |-> columns])

\* _decays[pid]['data'][daughters] = {...} unless the key is already there
AddMode(data, Nbody, daughters, BR, description) ==
    IF ModeIdx(data, daughters) # 0 THEN data
    ELSE Append(data, [Nbody |-> Nbody, daughters |-> daughters, BR |-> BR,
                       description |-> description])

\* _blocks[block] = {...} unless the name is already there
AddBlock(blocks, name, description) ==
    IF \E n \in 1..Len(blocks) : blocks[n].name = name THEN blocks
    ELSE Append(blocks, [name |-> name, description |-> description,
                         comments |-> <<>>, data |-> <<>>])

\* _decays[pid] = {...} unless the pid is already there
AddDecay(decays, p, width, description) ==
    IF \E n \in 1..Len(decays) : decays[n].pid = p THEN decays
    ELSE Append(decays, [pid |-> p, width |-> width, description |-> description,
                         comments |-> <<>>, data |-> <<>>])

\* the state of the loop: the document, data_type, block, pid, and the
\* exception the iteration raised ("" for none)
Loop(doc, dt, blk, p, exc) ==
    [doc |-> doc, data_type |-> dt, block |-> blk, pid |-> p, exc |-> exc]

CommentLine(st, line) ==
    LET doc == st.doc
        b == BlockIdx(doc, st.block)
        d == DecayIdx(doc, st.pid)
        text == line \o <<NL>>
    IN  CASE st.data_type = "None" ->
               [st EXCEPT !.doc.preamble = @ \o text]
          [] st.data_type = "B" ->
               [st EXCEPT !.doc.blocks[b].comments = @ \o text]
          [] st.data_type = "D" ->
               [st EXCEPT !.doc.decays[d].comments = @ \o text]

BlockHeader(st, data, description) ==
    LET parts == SplitOnce(data)
    IN  IF Len(parts) < 2
        THEN [st EXCEPT !.data_type = "B", !.exc = "IndexError"]
        ELSE [st EXCEPT !.data_type = "B",
                        !.block = Strip(parts[2]),
                        !.doc.blocks = AddBlock(@, Strip(parts[2]), description)]

DecayHeader(st, data, description) ==
    LET toks == Split(data)
    IN  IF Len(toks) < 2 THEN [st EXCEPT !.data_type = "D", !.exc = "IndexError"]
        ELSE IF ~IntParse(toks[2]).ok
        THEN [st EXCEPT !.data_type = "D", !.exc = "ValueError"]
        ELSE IF Len(toks) < 3
        THEN [st EXCEPT !.data_type = "D", !.exc = "IndexError"]
        ELSE IF ~FloatParse(toks[3]).ok
        THEN [st EXCEPT !.data_type = "D", !.exc = "ValueError"]
        ELSE [st EXCEPT !.data_type = "D",
                        !.pid = IntParse(toks[2]).v,
                        !.doc.decays = AddDecay(@, IntParse(toks[2]).v,
                                                FloatParse(toks[3]).f, description)]

BlockEntry(st, data, description) ==
    LET toks == Split(data)
        columns == Len(toks)
        b == BlockIdx(st.doc, st.block)
    IN  IF columns = 0 THEN st
        ELSE [st EXCEPT !.doc.blocks[b].data =
                  AddEntry(@, EntryKey(toks), PyStr(toks[columns]),
                           description, columns)]

DecayMode(st, data, description) ==
    LET toks == Split(data)
        d == DecayIdx(st.doc, st.pid)
        rest == SubSeq(toks, 3, Len(toks))
    IN  IF Len(toks) < 4 THEN st
        ELSE IF \/ ~FloatParse(toks[1]).ok
                \/ ~IntParse(toks[2]).ok
                \/ \E n \in 1..Len(rest) : ~IntParse(rest[n]).ok
        THEN [st EXCEPT !.exc = "ValueError"]
        ELSE [st EXCEPT !.doc.decays[d].data =
                  AddMode(@, IntParse(toks[2]).v,
                          [n \in 1..Len(rest) |-> IntParse(rest[n]).v],
                          FloatParse(toks[1]).f, description)]

\* the body of `for line in fSLHA.readlines()` on one line
ReadLine(st, raw) ==
    LET line == Strip(raw)
        parts == SplitHash(line)
        data == parts[1]
        description == IF Len(parts) > 1 THEN parts[2] ELSE <<>>
    IN  IF StartsWith(line, <<"#">>) THEN CommentLine(st, line)
        ELSE IF IsBlockLine(line) THEN BlockHeader(st, data, description)
        ELSE IF IsDecayLine(line) THEN DecayHeader(st, data, description)
        ELSE IF st.data_type = "B" THEN BlockEntry(st, data, description)
        ELSE IF st.data_type = "D" THEN DecayMode(st, data, description)
        ELSE st

(***************************************************************************)
(* _BlockToString, _DecayToString and the text SLHAdata.Write produces.    *)
(***************************************************************************)
DescMark == <<" ", " ", " ", " ", "#", " ">>

WithDescription(description) ==
    IF description # <<>> THEN DescMark \o description ELSE <<>>

RECURSIVE Concat(_)
Concat(ss) == IF ss = <<>> THEN <<>> ELSE Head(ss) \o Concat(Tail(ss))

\* the key columns of an entry line
KeyString(key) ==
    IF ~key.tup THEN LJust(PyToStr(key.e[1]), 3) \o <<" ", " ">>
    ELSE Concat([n \in 1..Len(key.e) |-> LJust(PyToStr(key.e[n]), 2) \o <<" ", " ">>])

\* the line _BlockToString adds for one entry
ParamString(param) ==
    <<NL, " ", " ">> \o KeyString(param.key)
      \o (IF param.columns > 1 THEN LJust(PyToStr(param.value), 16) ELSE <<>>)
      \o WithDescription(param.description)

\* formatting the entry raises TypeError
ParamRaises(param) == param.columns > 1 /\ FormatRaises(param.value)

BlockRaises(block) == \E n \in 1..Len(block.data) : ParamRaises(block.data[n])

BlockToString(block) ==
    <<"B", "L", "O", "C", "K", " ">> \o block.name
      \o WithDescription(block.description)
      \o Concat([n \in 1..Len(block.data) |-> ParamString(block.data[n])])

\* the line _DecayToString adds for one decay mode
ModeString(dmode) ==
    <<NL, " ", " ">> \o LJust(FloatStr(dmode.BR), 16)
      \o Concat([n \in 1..Len(dmode.daughters) |->
                    <<" ", " ">> \o RJust(IntStr(dmode.daughters[n]), 8)])
      \o WithDescription(dmode.description)

DecayToString(decay) ==
    <<"D", "E", "C", "A", "Y", " ", " ", " ">> \o LJust(IntStr(decay.pid), 8)
      \o <<" ", " ", " ">> \o LJust(FloatStr(decay.width), 16)
      \o WithDescription(decay.description)
      \o Concat([n \in 1..Len(decay.data) |-> ModeString(decay.data[n])])

\* number of blocks Write writes before _BlockToString raises
BlocksWritten(doc) ==
    IF \E n \in 1..Len(doc.blocks) : BlockRaises(doc.blocks[n])
    THEN (CHOOSE n \in 1..Len(doc.blocks) :
             /\ BlockRaises(doc.blocks[n])
             /\ \A j \in 1..(n - 1) : ~BlockRaises(doc.blocks[j])) - 1
    ELSE Len(doc.blocks)

WriteRaises(doc) == BlocksWritten(doc) < Len(doc.blocks)

\* what the body of Write has written when it ends, normally or not
WriteText(doc) ==
    doc.preamble \o <<NL>>
      \o Concat([n \in 1..BlocksWritten(doc) |->
                    BlockToString(doc.blocks[n]) \o <<NL>>
                      \o doc.blocks[n].comments \o <<NL>>])
      \o (IF WriteRaises(doc) THEN <<>>
          ELSE Concat([n \in 1..Len(doc.decays) |->
                          DecayToString(doc.decays[n]) \o <<NL>>
                            \o doc.decays[n].comments \o <<NL>>]))

(***************************************************************************)
(* The accessors of SLHAdata.                                              *)
(***************************************************************************)
\* GetValue(block, id): the value, None for KeyError
GetValue(doc, blockname, id) ==
    LET b == BlockIdx(doc, blockname)
        e == IF b = 0 THEN 0 ELSE EntryIdx(doc.blocks[b].data, id)
    IN  IF e = 0 THEN PyNone ELSE doc.blocks[b].data[e].value

\* SetValue storing by item assignment on the entry map, which inserts a
\* key that is not there
SetValueInserting(doc, blockname, id, value) ==
    LET b == BlockIdx(doc, blockname)
        e == IF b = 0 THEN 0 ELSE EntryIdx(doc.blocks[b].data, id)
    IN  IF b = 0 THEN doc
        ELSE IF e = 0
        THEN [doc EXCEPT !.blocks[b].data =
                 Append(@, [key |-> id, value |-> value, description |-> <<>>,
                            columns |-> 2])]
        ELSE [doc EXCEPT !.blocks[b].data[e].value = value]

\* SetValue(block, id, value): the document after the call
SetValueData(doc, blockname, id, value) ==
    LET b == BlockIdx(doc, blockname)
        e == IF b = 0 THEN 0 ELSE EntryIdx(doc.blocks[b].data, id)
    IN  IF e = 0 THEN doc
        ELSE [doc EXCEPT !.blocks[b].data[e].value = value]

\* SetValue(block, id, value): the status returned, 1 for KeyError
SetValueStatus(doc, blockname, id) ==
    LET b == BlockIdx(doc, blockname)
        e == IF b = 0 THEN 0 ELSE EntryIdx(doc.blocks[b].data, id)
    IN  IF e = 0 THEN 1 ELSE 0

FloatZero == [neg |-> FALSE, m |-> 0, k |-> 0]

\* GetBR looking the daughters up as a set, whatever their order
GetBRAnyOrder(doc, particle, daughters) ==
    LET p == GetPID(particle)
        d == IF p.t = "int" THEN DecayIdx(doc, p.i) ELSE 0
        same(m) == {doc.decays[d].data[m].daughters[n] :
                       n \in 1..Len(doc.decays[d].data[m].daughters)}
                   = {daughters[n] : n \in 1..Len(daughters)}
    IN  IF d = 0 \/ ~\E m \in 1..Len(doc.decays[d].data) : same(m) THEN FloatZero
        ELSE doc.decays[d].data[CHOOSE m \in 1..Len(doc.decays[d].data) : same(m)].BR

\* GetBR(particle, daughters): the branching ratio, 0. for KeyError
GetBR(doc, particle, daughters) ==
    LET p == GetPID(particle)
        d == IF p.t = "int" THEN DecayIdx(doc, p.i) ELSE 0
        m == IF d = 0 THEN 0 ELSE ModeIdx(doc.decays[d].data, daughters)
    IN  IF m = 0 THEN FloatZero ELSE doc.decays[d].data[m].BR

(***************************************************************************)
(* Inputs: the lines a file is made of, and the arguments of the calls.    *)
(***************************************************************************)
Library ==
    <<
      <<"B", "L", "O", "C", "K", " ", "A", " ", "#", " ", "d">>,  \* 1
      <<"b", "l", "o", "c", "k", " ", "A", " ", "#", " ", "e">>,  \* 2
      <<"B", "L", "O", "C", "K", " ", "B">>,  \* 3
      <<"3", " ", "1", "0", " ", "#", " ", "t">>,  \* 4
      <<"3">>,  \* 5
      <<"1", " ", "3", " ", "0", ".", "5">>,  \* 6
      <<"1", " ", "a", " ", "0", ".", "5">>,  \* 7
      <<"b", "l", "o", "c", "k", "s", "i", "z", "e", " ", "5">>,  \* 8
      <<"D", "E", "C", "A", "Y", " ", "6", " ", "1", ".", "5", "0">>,  \* 9
      <<"0", ".", "5", " ", "2", " ", "-", "5", " ", "5", " ", "#", " ", "m">>,  \* 10
      <<"1", " ", "2", " ", "a", " ", "4">>,  \* 11
      <<"#", " ", "c">>,  \* 12
      <<"B", "L", "O", "C", "K">>,  \* 13
      <<"D", "E", "C", "A", "Y", " ", "x">>  \* 14
    >>

\* the file whose lines are the library lines src, each newline-terminated
RECURSIVE FileOf(_)
FileOf(src) ==
    IF src = <<>> THEN <<>> ELSE Library[Head(src)] \o <<NL>> \o FileOf(Tail(src))

Sources == UNION {[1..n -> 1..Len(Library)] : n \in 0..MaxLines}

\* the lines of the accessor runs: a block header, entries with a scalar
\* and a tuple key, a one-column entry, a decay header and a decay mode
ApiLines == {1, 4, 5, 6, 9, 10}

ApiSources == UNION {[1..n -> ApiLines] : n \in 0..MaxApiLines}

BlockArgs == {<<"A">>, <<"Z">>}

KeyArgs ==
    {Key(FALSE, <<PyInt(3)>>), Key(FALSE, <<PyStr(<<"3">>)>>),
     Key(TRUE, <<PyInt(1), PyInt(3)>>)}

ValueArgs == {PyInt(20), PyNone}

ParticleArgs == {PyInt(6), PyStr(<<"t">>), PyStr(<<"z">>), PyInt(5)}

DaughterArgs == {<<0 - 5, 5>>, <<5, 0 - 5>>}

Targets == {"stdout", "stderr", "file"}

(***************************************************************************)
(* The program: ReadSLHA on a file, calls of the accessors on the          *)
(* document it returns, Write, and ReadSLHA again on the file written.     *)
(***************************************************************************)
VARIABLES
    src,        \* the library lines the first file was made of
    file,       \* the file ReadSLHA is reading
    lineno,     \* number of lines the loop has consumed
    SLHA_data,  \* the document
    data_type,  \* ReadSLHA's data_type: "None", "B" or "D"
    block,      \* ReadSLHA's block
    pid,        \* ReadSLHA's pid
    pc,         \* "reading", "ready", "returned" (an accessor has returned),
                \* "aborted" (ReadSLHA raised), "raised" (Write raised)
    exc,        \* the exception that ended the run, "" for none
    handles,    \* the file objects: the one ReadSLHA opens, the one Write opens, the two streams
    out,        \* the last Write: its target, what it wrote, the document it wrote
    last,       \* the accessor call just made, with the document before it
    round,      \* number of ReadSLHA calls made
    sets,       \* number of successful SetValue calls since ReadSLHA returned
    prev        \* the document and text of the Write whose file is being read

vars ==
    <<src, file, lineno, SLHA_data, data_type, block, pid, pc, exc, handles,
      out, last, round, sets, prev>>

NoOut ==
    [target |-> "none", text |-> <<>>, doc |-> EmptyData, clean |-> FALSE]

NoCall ==
    [op |-> "none", block |-> <<>>, key |-> Key(FALSE, <<>>), value |-> PyNone,
     particle |-> PyNone, daughters |-> <<>>, ret |-> PyNone, before |-> EmptyData]

NoPrev == [valid |-> FALSE, doc |-> EmptyData, text |-> <<>>]

\* ReadSLHA has opened a file made of lines drawn from S
Start(S) ==
    /\ src \in S
    /\ file = FileOf(src)
    /\ lineno = 0
    /\ SLHA_data = EmptyData
    /\ data_type = "None"
    /\ block = <<>>
    /\ pid = 0
    /\ pc = "reading"
    /\ exc = ""
    /\ handles = [in |-> "open", out |-> "none", stdout |-> "open", stderr |-> "open"]
    /\ out = NoOut
    /\ last = NoCall
    /\ round = 1
    /\ sets = 0
    /\ prev = NoPrev

Init == Start(Sources)

InitApi == Start(ApiSources)

\* one iteration of the loop of ReadSLHA; an exception leaves the with
\* statement, which closes the file
ReadNext ==
    /\ pc = "reading"
    /\ lineno < Len(Readlines(file))
    /\ LET st == ReadLine(Loop(SLHA_data, data_type, block, pid, ""),
                          Readlines(file)[lineno + 1])
       IN  /\ SLHA_data' = st.doc
           /\ data_type' = st.data_type
           /\ block' = st.block
           /\ pid' = st.pid
           /\ exc' = st.exc
           /\ pc' = IF st.exc = "" THEN "reading" ELSE "aborted"
           /\ handles' = IF st.exc = "" THEN handles
                         ELSE [handles EXCEPT !.in = "closed"]
    /\ lineno' = lineno + 1
    /\ UNCHANGED <<src, file, out, last, round, sets, prev>>

\* the loop is over: the with statement closes the file, SLHA_data is returned
ReadReturn ==
    /\ pc = "reading"
    /\ lineno = Len(Readlines(file))
    /\ pc' = "ready"
    /\ handles' = [handles EXCEPT !.in = "closed"]
    /\ UNCHANGED <<src, file, lineno, SLHA_data, data_type, block, pid, exc,
                   out, last, round, sets, prev>>

CallGetValue ==
    /\ pc = "ready"
    /\ \E b \in BlockArgs, k \in KeyArgs :
          last' = [NoCall EXCEPT !.op = "GetValue", !.block = b, !.key = k,
                                 !.ret = GetValue(SLHA_data, b, k),
                                 !.before = SLHA_data]
    /\ pc' = "returned"
    /\ UNCHANGED <<src, file, lineno, SLHA_data, data_type, block, pid, exc,
                   handles, out, round, sets, prev>>

CallSetValue ==
    /\ pc = "ready"
    /\ sets < MaxSets
    /\ \E b \in BlockArgs, k \in KeyArgs, v \in ValueArgs :
          /\ SLHA_data' = SetValueData(SLHA_data, b, k, v)
          /\ sets' = sets + (1 - SetValueStatus(SLHA_data, b, k))
          /\ last' = [NoCall EXCEPT !.op = "SetValue", !.block = b, !.key = k,
                                    !.value = v,
                                    !.ret = PyInt(SetValueStatus(SLHA_data, b, k)),
                                    !.before = SLHA_data]
    /\ pc' = "returned"
    /\ UNCHANGED <<src, file, lineno, data_type, block, pid, exc, handles,
                   out, round, prev>>

CallGetBR ==
    /\ pc = "ready"
    /\ \E p \in ParticleArgs, ds \in DaughterArgs :
          last' = [NoCall EXCEPT !.op = "GetBR", !.particle = p, !.daughters = ds,
                                 !.ret = PyFloat(GetBR(SLHA_data, p, ds)),
                                 !.before = SLHA_data]
    /\ pc' = "returned"
    /\ UNCHANGED <<src, file, lineno, SLHA_data, data_type, block, pid, exc,
                   handles, out, round, sets, prev>>

\* the caller goes on after the accessor has returned
Continue ==
    /\ pc = "returned"
    /\ pc' = "ready"
    /\ last' = NoCall
    /\ UNCHANGED <<src, file, lineno, SLHA_data, data_type, block, pid, exc,
                   handles, out, round, sets, prev>>

\* _IOstream(file): a stream is handed over as it is; a file is opened, and
\* closed only when the body of the with statement ends without exception
IOstreamExit(h, target, raised) ==
    IF target = "file"
    THEN [h EXCEPT !.out = IF raised THEN "open" ELSE "closed"]
    ELSE h

Write ==
    /\ pc = "ready"
    /\ \E target \in Targets :
          /\ out' = [target |-> target, text |-> WriteText(SLHA_data),
                     doc |-> SLHA_data, clean |-> (sets = 0)]
          /\ handles' = IOstreamExit(handles, target, WriteRaises(SLHA_data))
    /\ pc' = IF WriteRaises(SLHA_data) THEN "raised" ELSE "ready"
    /\ exc' = IF WriteRaises(SLHA_data) THEN "TypeError" ELSE ""
    /\ last' = NoCall
    /\ UNCHANGED <<src, file, lineno, SLHA_data, data_type, block, pid, round,
                   sets, prev>>

\* ReadSLHA on the file Write has written
ReadAgain ==
    /\ pc = "ready"
    /\ round < MaxRounds
    /\ out.target = "file"
    /\ file' = out.text
    /\ lineno' = 0
    /\ SLHA_data' = EmptyData
    /\ data_type' = "None"
    /\ block' = <<>>
    /\ pid' = 0
    /\ pc' = "reading"
    /\ handles' = [handles EXCEPT !.in = "open"]
    /\ prev' = [valid |-> out.clean, doc |-> out.doc, text |-> out.text]
    /\ out' = NoOut
    /\ last' = NoCall
    /\ round' = round + 1
    /\ sets' = 0
    /\ UNCHANGED <<src, exc>>

\* parse, serialize, parse again
Next ==
    \/ ReadNext
    \/ ReadReturn
    \/ Write
    \/ ReadAgain

Spec == Init /\ [][Next]_vars

\* parse, call the accessors, serialize
NextApi ==
    \/ ReadNext
    \/ ReadReturn
    \/ CallGetValue
    \/ CallSetValue
    \/ CallGetBR
    \/ Continue
    \/ Write

SpecApi == InitApi /\ [][NextApi]_vars

TypeOK ==
    /\ pc \in {"reading", "ready", "returned", "aborted", "raised"}
    /\ data_type \in {"None", "B", "D"}
    /\ round \in 1..MaxRounds
    /\ sets \in 0..MaxSets

(***************************************************************************)
(* The input as the format describes it, independently of ReadSLHA: the    *)
(* kind of a line is decided by the first token of its data portion.       *)
(***************************************************************************)
DataTokens(raw) == Split(SplitHash(Strip(raw))[1])

LineDescription(raw) ==
    IF Len(SplitHash(Strip(raw))) > 1 THEN SplitHash(Strip(raw))[2] ELSE <<>>

LineKind(raw) ==
    IF StartsWith(Strip(raw), <<"#">>) THEN "comment"
    ELSE IF DataTokens(raw) = <<>> THEN "blank"
    ELSE IF Lower(DataTokens(raw)[1]) = kwBlock THEN "block"
    ELSE IF Lower(DataTokens(raw)[1]) = kwDecay THEN "decay"
    ELSE "data"

\* the name a BLOCK header line gives: what follows the keyword, trimmed
HeaderName(raw) ==
    LET parts == SplitOnce(SplitHash(Strip(raw))[1])
    IN  IF Len(parts) < 2 THEN <<>> ELSE Strip(parts[2])

\* position of the last header line among ls, 0 when there is none
RECURSIVE LastHeader(_)
LastHeader(ls) ==
    IF ls = <<>> THEN 0
    ELSE IF LineKind(ls[Len(ls)]) \in {"block", "decay"} THEN Len(ls)
    ELSE LastHeader(SubSeq(ls, 1, Len(ls) - 1))

\* the record type the lines ls leave the reader in
RecordType(ls) ==
    IF LastHeader(ls) = 0 THEN "None"
    ELSE IF LineKind(ls[LastHeader(ls)]) = "block" THEN "B" ELSE "D"

Lines == Readlines(file)

Consumed == SubSeq(Lines, 1, lineno)

\* line n is a data line of a section opened by a BLOCK header named name
InBlock(ls, n, name) ==
    /\ LineKind(ls[n]) = "data"
    /\ RecordType(SubSeq(ls, 1, n - 1)) = "B"
    /\ HeaderName(ls[LastHeader(SubSeq(ls, 1, n - 1))]) = name

HeaderLines(ls, name) ==
    {n \in 1..Len(ls) : LineKind(ls[n]) = "block" /\ HeaderName(ls[n]) = name}

Min(S) == CHOOSE x \in S : \A y \in S : x <= y

\* C10: while ReadSLHA runs and when it has returned, the record type is
\* the one of the last line whose first token is the keyword block or decay
\* (none before the first such line), and in block state the current block
\* is the one that line names: no other line changes either.
C10_RecordTypeByFirstToken ==
    pc \in {"reading", "ready"} =>
        /\ data_type = RecordType(Consumed)
        /\ data_type = "B" => block = HeaderName(Consumed[LastHeader(Consumed)])

\* a DECAY header with an integer particle ID and a float width as its
\* second and third tokens
GoodDecayHeader(raw) ==
    /\ Len(DataTokens(raw)) >= 3
    /\ IntParse(DataTokens(raw)[2]).ok
    /\ FloatParse(DataTokens(raw)[3]).ok

\* C8: when every DECAY header of the file has an integer particle ID and a
\* float width, ReadSLHA does not abort.
C8_OnlyDecayHeaderAborts ==
    (\A n \in 1..Len(Lines) : LineKind(Lines[n]) = "decay" => GoodDecayHeader(Lines[n]))
        => pc # "aborted"

\* the key C4 gives an entry line with the tokens toks
ClaimKey(toks) ==
    IF Len(toks) <= 2 THEN Key(FALSE, <<IntOrStr(toks[1])>>)
    ELSE IF Len(toks) = 3 THEN Key(TRUE, <<IntOrStr(toks[1]), IntOrStr(toks[2])>>)
    ELSE Key(TRUE, [n \in 1..(Len(toks) - 1) |-> PyStr(toks[n])])

\* the entries of the block called name, <<>> when there is no such block
DataOf(doc, name) ==
    IF \E n \in 1..Len(doc.blocks) : doc.blocks[n].name = name
    THEN doc.blocks[CHOOSE n \in 1..Len(doc.blocks) : doc.blocks[n].name = name].data
    ELSE <<>>

\* C4: once ReadSLHA has consumed an entry line inside a block, the block
\* holds an entry under the key the column count prescribes (1-2 columns:
\* the first token, int if it parses; 3 columns: the pair of the first two
\* tokens, each int if it parses; 4 or more: all tokens but the last, as
\* strings), the entry's value is a str, and it is the line's last token
\* when this is the first line of the block with that key.
C4_KeyShape ==
    (pc \in {"reading", "ready"} /\ lineno >= 1
       /\ InBlock(Lines, lineno, HeaderName(Lines[LastHeader(Consumed)]))) =>
        LET toks == DataTokens(Lines[lineno])
            name == HeaderName(Lines[LastHeader(Consumed)])
            data == DataOf(SLHA_data, name)
            first == \A n \in 1..(lineno - 1) :
                        InBlock(Lines, n, name) => ClaimKey(DataTokens(Lines[n])) # ClaimKey(toks)
        IN  \E m \in 1..Len(data) :
               /\ data[m].key = ClaimKey(toks)
               /\ data[m].value.t = "str"
               /\ first => data[m].value = PyStr(toks[Len(toks)])

BlockNames(ls) == {HeaderName(ls[n]) : n \in {m \in 1..Len(ls) : LineKind(ls[m]) = "block"}}

\* the first data line of the sections of block name whose key is k
FirstWithKey(ls, name, k) ==
    Min({n \in 1..Len(ls) : InBlock(ls, n, name) /\ EntryKey(DataTokens(ls[n])) = k})

\* C3: when ReadSLHA has returned, a block name with two or more header
\* lines is in Blocks() exactly once, after every name whose first header
\* comes earlier, with the description of its first header, and every entry
\* line that follows one of its later headers is in the block's entry map
\* under its key, with the value of the first line of the block that has
\* that key.
C3_DuplicateBlocksMerged ==
    pc = "ready" =>
        \A name \in BlockNames(Lines) :
            Cardinality(HeaderLines(Lines, name)) >= 2 =>
                LET firstHeader == Min(HeaderLines(Lines, name))
                    laterHeader == Min(HeaderLines(Lines, name) \ {firstHeader})
                    names == Blocks(SLHA_data)
                    at == {m \in 1..Len(names) : names[m] = name}
                    data == DataOf(SLHA_data, name)
                IN  /\ Cardinality(at) = 1
                    /\ \A other \in BlockNames(Lines) :
                          Min(HeaderLines(Lines, other)) < firstHeader =>
                              \E m \in 1..Len(names) :
                                  names[m] = other /\ \A a \in at : m < a
                    /\ \A m \in at :
                          SLHA_data.blocks[m].description = LineDescription(Lines[firstHeader])
                    /\ \A n \in (laterHeader + 1)..Len(Lines) :
                          InBlock(Lines, n, name) =>
                              LET k == EntryKey(DataTokens(Lines[n]))
                                  src1 == Lines[FirstWithKey(Lines, name, k)]
                              IN  \E m \in 1..Len(data) :
                                     /\ data[m].key = k
                                     /\ data[m].value =
                                           PyStr(DataTokens(src1)[Len(DataTokens(src1))])

(***************************************************************************)
(* Well-formed input: comment lines; BLOCK headers with a name, each name  *)
(* once; DECAY headers with particle ID and width, each ID once; in a      *)
(* block, entry lines of integer key columns and a numeric value, each key *)
(* once; in a decay table, mode lines of a branching ratio, the number of  *)
(* daughters and the daughter IDs, each daughter tuple once; no data line  *)
(* before the first header.                                                *)
(***************************************************************************)
IntsOf(toks) == [n \in 1..Len(toks) |-> IntParse(toks[n]).v]

AllInts(toks) == \A n \in 1..Len(toks) : IntParse(toks[n]).ok

GoodEntry(toks) ==
    /\ Len(toks) >= 2
    /\ AllInts(SubSeq(toks, 1, Len(toks) - 1))
    /\ FloatParse(toks[Len(toks)]).ok

GoodMode(toks) ==
    /\ Len(toks) >= 4
    /\ FloatParse(toks[1]).ok
    /\ AllInts(SubSeq(toks, 2, Len(toks)))
    /\ IntParse(toks[2]).v = Len(toks) - 2

\* the key columns of a well-formed data line, as integers
KeyColumns(ls, n) ==
    IF RecordType(SubSeq(ls, 1, n - 1)) = "B"
    THEN IntsOf(SubSeq(DataTokens(ls[n]), 1, Len(DataTokens(ls[n])) - 1))
    ELSE IntsOf(SubSeq(DataTokens(ls[n]), 3, Len(DataTokens(ls[n]))))

WellFormedLine(ls, n) ==
    LET toks == DataTokens(ls[n])
        before == SubSeq(ls, 1, n - 1)
    IN  CASE LineKind(ls[n]) = "comment" -> TRUE
          [] LineKind(ls[n]) = "blank" -> TRUE
          [] LineKind(ls[n]) = "block" ->
               /\ Len(toks) >= 2
               /\ \A m \in 1..(n - 1) :
                     LineKind(ls[m]) = "block" => HeaderName(ls[m]) # HeaderName(ls[n])
          [] LineKind(ls[n]) = "decay" ->
               /\ Len(toks) = 3
               /\ GoodDecayHeader(ls[n])
               /\ \A m \in 1..(n - 1) :
                     (LineKind(ls[m]) = "decay" /\ GoodDecayHeader(ls[m])) =>
                         IntParse(DataTokens(ls[m])[2]).v # IntParse(toks[2]).v
          [] OTHER ->
               /\ RecordType(before) # "None"
               /\ RecordType(before) = "B" => GoodEntry(toks)
               /\ RecordType(before) = "D" => GoodMode(toks)
               /\ \A m \in (LastHeader(before) + 1)..(n - 1) :
                     LineKind(ls[m]) = "data" => KeyColumns(ls, m) # KeyColumns(ls, n)

WellFormed(text) ==
    \A n \in 1..Len(Readlines(text)) : WellFormedLine(Readlines(text), n)

\* C1: for a well-formed first file, when the file Write wrote from the
\* parsed document has been parsed in turn and written, the second text is
\* the first.
C1_WriteIdempotent ==
    (WellFormed(FileOf(src)) /\ prev.valid /\ out.target # "none" /\ out.clean) =>
        out.text = prev.text

EntryKeys(blk) == [n \in 1..Len(blk.data) |-> blk.data[n].key]

DecayModes(decay) ==
    [n \in 1..Len(decay.data) |-> <<decay.data[n].daughters, decay.data[n].BR>>]

\* C2: for a well-formed first file, the document parsed from the file that
\* Write wrote has the block names, the particle IDs, each block's entry
\* keys and each decay table's daughter tuples with their branching ratios
\* of the document that was written, all in the same order.
C2_RoundTripPreserves ==
    (WellFormed(FileOf(src)) /\ prev.valid /\ pc = "ready" /\ sets = 0) =>
        /\ Blocks(SLHA_data) = Blocks(prev.doc)
        /\ Decays(SLHA_data) = Decays(prev.doc)
        /\ \A n \in 1..Len(prev.doc.blocks) :
              n <= Len(SLHA_data.blocks) =>
                  EntryKeys(SLHA_data.blocks[n]) = EntryKeys(prev.doc.blocks[n])
        /\ \A n \in 1..Len(prev.doc.decays) :
              n <= Len(SLHA_data.decays) =>
                  DecayModes(SLHA_data.decays[n]) = DecayModes(prev.doc.decays[n])

(***************************************************************************)
(* The accessors.  `last` is the call just made and `last.before` the      *)
(* document it was made on.                                                *)
(***************************************************************************)
\* the entry (block, key) is in the document
Present(doc, blockname, key) ==
    \E n \in 1..Len(doc.blocks) :
        /\ doc.blocks[n].name = blockname
        /\ \E m \in 1..Len(doc.blocks[n].data) : doc.blocks[n].data[m].key = key

\* the entry (block, key) of a document that has it
EntryOf(doc, blockname, key) ==
    LET data == DataOf(doc, blockname)
    IN  data[CHOOSE m \in 1..Len(data) : data[m].key = key]

\* the particle has a decay table, and the table has the daughter tuple
HasMode(doc, particle, daughters) ==
    \E n \in 1..Len(doc.decays) :
        /\ \/ particle.t = "int" /\ doc.decays[n].pid = particle.i
           \/ /\ particle.t = "str"
              /\ \E q \in 1..Len(PIDs) :
                    PIDs[q][1] = particle.s /\ PIDs[q][2] = doc.decays[n].pid
        /\ \E m \in 1..Len(doc.decays[n].data) :
              doc.decays[n].data[m].daughters = daughters

\* C5: after a SetValue that returned 0, GetValue of the entry is the str
\* of the value set, the entry's line in the block's text has that value in
\* its value column, and nothing else in the document has changed.
C5_SetValueVisible ==
    (last.op = "SetValue" /\ last.ret = PyInt(0)) =>
        LET e == EntryOf(SLHA_data, last.block, last.key)
        IN  /\ GetValue(SLHA_data, last.block, last.key) = PyStr(PyToStr(last.value))
            /\ ParamString(e) =
                  <<NL, " ", " ">> \o KeyString(e.key)
                    \o LJust(PyToStr(last.value), 16) \o WithDescription(e.description)
            /\ SLHA_data = SetValueData(last.before, last.block, last.key, e.value)

\* C6: a SetValue whose block or key is not in the document returns 1, a
\* SetValue whose entry is there returns 0, so the two are told apart; the
\* failed call raises nothing and leaves the document as it was.
C6_SetValueMissing ==
    last.op = "SetValue" =>
        /\ pc = "returned" /\ exc = ""
        /\ last.ret = (IF Present(last.before, last.block, last.key)
                       THEN PyInt(0) ELSE PyInt(1))
        /\ ~Present(last.before, last.block, last.key) => SLHA_data = last.before

\* C6 witness: the block has the integer key 3, SetValue was called with
\* the string key "3" and has failed.
C6_Witness ==
    /\ last.op = "SetValue"
    /\ last.key = Key(FALSE, <<PyStr(<<"3">>)>>)
    /\ Present(last.before, last.block, Key(FALSE, <<PyInt(3)>>))
    /\ last.ret = PyInt(1)

\* C7: GetValue of an entry that is not in the document returns None; GetBR
\* returns 0.0 unless the particle has a decay table holding that very
\* daughter tuple; neither call raises or changes the document.
C7_AbsentLookups ==
    /\ (last.op = "GetValue" /\ ~Present(last.before, last.block, last.key)) =>
           last.ret = PyNone
    /\ (last.op = "GetBR" /\ ~HasMode(last.before, last.particle, last.daughters)) =>
           last.ret = PyFloat(FloatZero)
    /\ last.op \in {"GetValue", "GetBR"} =>
           pc = "returned" /\ exc = "" /\ SLHA_data = last.before

\* C7 witness: the top quark has a decay table with the mode (-5, 5), GetBR
\* was asked for (5, -5) by name and returned 0.0.
C7_Witness ==
    /\ last.op = "GetBR"
    /\ last.particle = PyStr(<<"t">>)
    /\ last.daughters = <<5, 0 - 5>>
    /\ HasMode(last.before, PyInt(6), <<0 - 5, 5>>)
    /\ last.ret = PyFloat(FloatZero)

\* C9: a file Write has opened is closed whenever Write is not running, the
\* two standard streams are never closed, and the file ReadSLHA has opened
\* is closed once ReadSLHA has returned or aborted.
C9_HandlesReleased ==
    /\ handles.out # "open"
    /\ handles.stdout = "open"
    /\ handles.stderr = "open"
    /\ pc # "reading" => handles.in = "closed"

====
